---- MODULE Spec2Model ----
(***************************************************************************)
(* Model of the video frame extractor (src/main.py): the command-line      *)
(* session of main(), the VideoFrameExtractor context manager, the frame   *)
(* count resolution, the index selection, the per-frame loop of            *)
(* extract_frames and the letterbox geometry of _resize_with_aspect_ratio. *)
(*                                                                         *)
(* Python floats are IEEE-754 doubles.  The three places where the code    *)
(* truncates a double product, int(duration * fps), np.linspace(...,       *)
(* dtype=int) and int(w * ratio), all have the shape                       *)
(* floor(fl(i * fl(D / m))) with small non-negative integers i, D, m.      *)
(* FloorMulDiv computes that value exactly with integer arithmetic.        *)
(***************************************************************************)
EXTENDS Integers, Sequences, FiniteSets, TLC

\* ------------------------------------------------------------------ bounds

\* Largest total frame count of a video in the session specification.
MaxTotalFrames == 4

\* Largest explicit -n value in the session specification.
MaxRequested == 5

\* Largest total frame count in the sampler specification.
MaxSamplerFrames == 31

\* Largest source or target dimension in the compositor specification.
MaxDim == 8

\* ------------------------------------------------- double-precision helpers

\* Width of the significand of a double, minus one (52 stored bits).
MantissaBits == 52

Min(a, b) == IF a <= b THEN a ELSE b

Max(a, b) == IF a >= b THEN a ELSE b

RECURSIVE Pow2(_)
Pow2(e) == IF e = 0 THEN 1 ELSE 2 * Pow2(e - 1)

\* 2^e mod m, by repeated doubling so that no intermediate exceeds 2m.
RECURSIVE Pow2Mod(_, _)
Pow2Mod(e, m) == IF e = 0 THEN 1 % m ELSE (2 * Pow2Mod(e - 1, m)) % m

\* floor(log2(k)) for k >= 1.
RECURSIVE ILog2(_)
ILog2(k) == IF k < 2 THEN 0 ELSE 1 + ILog2(k \div 2)

\* floor(log2(D / m)) for D >= 1, m >= 1 (negative when D < m).
RECURSIVE RatioExp(_, _)
RatioExp(D, m) ==
    IF D >= 2 * m THEN 1 + RatioExp(D, 2 * m)
    ELSE IF D < m THEN RatioExp(2 * D, m) - 1
    ELSE 0

\* TRUE when the double quotient fl(D / m) lies strictly below D / m:
\* the significand q = D * 2^(52-p) / m is rounded to nearest, ties to even.
QuotientRoundedDown(D, m) ==
    LET e  == MantissaBits - RatioExp(D, m)
        r  == (D * Pow2Mod(e, m)) % m
        r2 == (D * Pow2Mod(e, 2 * m)) % (2 * m)
    IN  /\ r > 0
        /\ \/ 2 * r < m
           \/ 2 * r = m /\ r2 < m

\* floor(fl(i * fl(D / m))) for integers i >= 0, D >= 0, m >= 1: the value
\* Python computes for int(i * (D / m)).  When i*D/m is not an integer the
\* rounding error (relative 2^-52) cannot cross an integer.  When it is an
\* integer k, the product lands below k exactly when the quotient was
\* rounded down by more than half the spacing of doubles just below k.
FloorMulDiv(i, D, m) ==
    IF i = 0 \/ D = 0 THEN 0
    ELSE IF (i * D) % m # 0 THEN (i * D) \div m
    ELSE LET k  == (i * D) \div m
             p  == RatioExp(D, m)
             r  == (D * Pow2Mod(MantissaBits - p, m)) % m
             pk == ILog2(k)
             f  == IF k = Pow2(pk) THEN 4 ELSE 2
         IN  IF QuotientRoundedDown(D, m) /\ f * i * r > m * Pow2(pk - p)
             THEN k - 1
             ELSE k

\* ------------------------------------------------------------------- state

VARIABLES
    pc,               \* position of main() / extract_frames
    config,           \* the dictionary parse_arguments returns
    cap,              \* the cv2.VideoCapture of the session
    video_info,       \* VideoFrameExtractor.video_info
    num_frames,       \* extract_frames' local num_frames
    frame_indices,    \* extract_frames' local frame_indices
    idx,              \* zero-based position of the loop in frame_indices
    read_calls,       \* number of cap.read() calls made
    composed,         \* result of the last _resize_with_aspect_ratio
    imwrite_ok,       \* result of the last cv2.imwrite
    extracted_files,  \* extract_frames' local extracted_files
    disk,             \* frame files present in the output directory
    dir_created,      \* the output directory has been created
    warnings,         \* per-frame warnings printed to stderr
    outcome,          \* which exit path the process took
    exit_code,        \* the status given to sys.exit (-1 while running)
    argv,             \* sys.argv, the program name first
    arg_i             \* parse_arguments' local i (an index into sys.argv)

vars == <<pc, config, cap, video_info, num_frames, frame_indices, idx,
          read_calls, composed, imwrite_ok, extracted_files, disk,
          dir_created, warnings, outcome, exit_code, argv, arg_i>>

\* config['num_frames'] is None or an int.
None == [present |-> FALSE, value |-> 0]

Some(n) == [present |-> TRUE, value |-> n]

NoCompose == [ok |-> FALSE, new_w |-> 0, new_h |-> 0, x_offset |-> 0,
              y_offset |-> 0, canvas_w |-> 0, canvas_h |-> 0]

NoVideoInfo == [fps |-> 0, total_frames |-> 0, width |-> 0, height |-> 0]

\* --------------------------------------------------------------- the sampler

\* int(duration * frames_per_second), duration = total_frames / fps when
\* fps > 0 and 0 otherwise (_load_video_info).
OptimalRaw(info, frames_per_second) ==
    IF info.fps > 0
    THEN FloorMulDiv(frames_per_second, info.total_frames, info.fps)
    ELSE 0

calculate_optimal_frames(info, frames_per_second) ==
    Max(1, Min(OptimalRaw(info, frames_per_second), info.total_frames))

\* main(): config['num_frames'] after the "Calcular frames optimos" block.
ResolveFromConfig(info, requested, frames_per_second) ==
    IF requested.present
    THEN requested
    ELSE Some(calculate_optimal_frames(info, frames_per_second))

\* A variant that clamps the request into [1, total_frames] from below too.
CapClampedAtLeastOne(info, requested, frames_per_second) ==
    LET n == IF requested.present
             THEN requested.value
             ELSE calculate_optimal_frames(info, frames_per_second)
    IN  Max(1, Min(n, info.total_frames))

\* extract_frames: the automatic count when num_frames is None, then the cap
\* num_frames = min(num_frames, total_frames).  There is no lower clamp.
CapToAvailable(info, requested, frames_per_second) ==
    LET n == IF requested.present
             THEN requested.value
             ELSE calculate_optimal_frames(info, frames_per_second)
    IN  Min(n, info.total_frames)

\* A variant that takes the middle of 1..total_frames, one too far.
MiddleIndexOneBased(total_frames) == (total_frames + 1) \div 2

\* The single sample when num_frames == 1: total_frames // 2.
MiddleIndex(total_frames) == total_frames \div 2

\* np.linspace called with endpoint=False: the step is stop / num and the
\* last sample is not pinned to stop.
LinspaceNoEndpoint(stop, num) ==
    [j \in 1..num |-> FloorMulDiv(j - 1, stop, num)]

\* np.linspace(0, stop, num, dtype=int) for num >= 0: step = stop / (num-1)
\* as a double, sample i = i * step as a double, the last sample set to stop,
\* then floor.  num = 0 gives the empty array.
Linspace(stop, num) ==
    [j \in 1..num |-> IF j = num THEN stop
                      ELSE FloorMulDiv(j - 1, stop, num - 1)]

\* np.linspace raises ValueError for a negative number of samples.
SelectRaises(n) == n < 0

\* extract_frames: frame_indices, for n >= 0.
SelectIndices(total_frames, n) ==
    IF n = 1 THEN <<MiddleIndex(total_frames)>>
    ELSE Linspace(total_frames - 1, n)

\* ------------------------------------------------------------ the compositor

\* Length of the Python slice a[start:stop] of an axis of length len, for
\* 0 <= start <= stop.
SliceLen(start, stop, len) == Max(0, Min(stop, len) - Min(start, len))

\* _resize_with_aspect_ratio on a w x h image: ratio is the smaller of the
\* doubles tw / w and th / h (rounding is monotone, so the smaller quotient
\* is the one of the smaller fraction), new_w = int(w * ratio), new_h =
\* int(h * ratio).  cv2.resize raises on an empty destination size, and the
\* paste raises unless the canvas slice has the shape of the resized image.
Compose(w, h, tw, th) ==
    LET byWidth == tw * h <= th * w
        new_w == IF byWidth THEN FloorMulDiv(w, tw, w) ELSE FloorMulDiv(w, th, h)
        new_h == IF byWidth THEN FloorMulDiv(h, tw, w) ELSE FloorMulDiv(h, th, h)
        y_off == (th - new_h) \div 2
        x_off == (tw - new_w) \div 2
        resize_ok == new_w > 0 /\ new_h > 0
        paste_ok == /\ x_off >= 0 /\ y_off >= 0
                    /\ SliceLen(y_off, y_off + new_h, th) = new_h
                    /\ SliceLen(x_off, x_off + new_w, tw) = new_w
    IN  [ok |-> resize_ok /\ paste_ok, new_w |-> new_w, new_h |-> new_h,
         x_offset |-> x_off, y_offset |-> y_off,
         canvas_w |-> tw, canvas_h |-> th]

\* ------------------------------------------------------------- file naming

RECURSIVE Digits(_)
Digits(n) == IF n < 10 THEN <<n>> ELSE Append(Digits(n \div 10), n % 10)

\* Width of the zero-padded number in a frame file name ("{idx:06d}").
PadWidth == 6

\* f"{n:06d}" for n >= 0: the decimal digits, zero-padded on the left to at
\* least PadWidth characters.
Format06d(n) ==
    LET d == Digits(n)
    IN  [j \in 1..(Max(PadWidth, Len(d)) - Len(d)) |-> 0] \o d

FileName(n) == [prefix |-> "frame", number |-> Format06d(n), ext |-> "jpg"]

\* ------------------------------------------------------------------ inputs

\* Values of config['num_frames']: absent, or -n with an int (int() accepts
\* zero and negative numbers).
Requested(maxN) == {None} \cup {Some(n) : n \in -1..maxN}

\* Values of --fps (default 20) and of the frame rate the decoder reports.
SamplingFps == {1, 20}

VideoFps == {0, 1, 30}

\* Frame sizes (width, height) the decoder reports, and target sizes.
SourceSizes == {<<4, 2>>, <<3, 1>>}

TargetSizes == {<<2, 2>>, <<6, 3>>}

Configs(maxN, sizes) ==
    {[num_frames |-> n, width |-> t[1], height |-> t[2],
      fps_for_optimal |-> f, info_only |-> i] :
        n \in Requested(maxN), t \in sizes, f \in SamplingFps,
        i \in BOOLEAN}

VideoInfos(frameCounts, sizes) ==
    {[fps |-> f, total_frames |-> n, width |-> s[1], height |-> s[2]] :
        f \in VideoFps, n \in frameCounts, s \in sizes}

\* ----------------------------------------------------------------- actions

\* sys.exit(code) on the exit path named o.
Terminate(o, code) ==
    /\ pc' = "done"
    /\ outcome' = o
    /\ exit_code' = code

\* VideoFrameExtractor.__exit__: release the capture if there is one.
Release(c) == IF c # "none" THEN "released" ELSE c

\* main(): os.path.isfile(config['video_path']).
CheckFile ==
    /\ pc = "main"
    /\ \E exists \in BOOLEAN :
          IF exists
          THEN /\ pc' = "enter"
               /\ UNCHANGED <<outcome, exit_code>>
          ELSE Terminate("no_file", 1)
    /\ UNCHANGED <<argv, arg_i, config, cap, video_info, num_frames, frame_indices, idx,
                   read_calls, composed, imwrite_ok, extracted_files, disk,
                   dir_created, warnings>>

\* __enter__, first statement: self.cap = cv2.VideoCapture(path).  Whether
\* the capture is open is the decoder's answer.
EnterCreate ==
    /\ pc = "enter"
    /\ \E opened \in BOOLEAN :
          cap' = IF opened THEN "opened" ELSE "unopened"
    /\ pc' = "entering"
    /\ UNCHANGED <<argv, arg_i, config, video_info, num_frames, frame_indices, idx,
                   read_calls, composed, imwrite_ok, extracted_files, disk,
                   dir_created, warnings, outcome, exit_code>>

\* __enter__, the rest: raise ValueError when the capture is not open (the
\* with statement does not call __exit__ then; main catches the error and
\* exits 1), else load the video information and enter the with body.
EnterCheck ==
    /\ pc = "entering"
    /\ IF cap = "unopened"
       THEN /\ Terminate("value_error", 1)
            /\ UNCHANGED video_info
       ELSE /\ video_info' \in VideoInfos(0..MaxTotalFrames, SourceSizes)
            /\ pc' = "body"
            /\ UNCHANGED <<outcome, exit_code>>
    /\ UNCHANGED <<argv, arg_i, config, cap, num_frames, frame_indices, idx, read_calls,
                   composed, imwrite_ok, extracted_files, disk, dir_created,
                   warnings>>

\* main(): print the information; with --info exit 0 through __exit__; else
\* fill config['num_frames'] with the optimal count when it is None.
ShowInfo ==
    /\ pc = "body"
    /\ IF config.info_only
       THEN /\ cap' = Release(cap)
            /\ Terminate("info", 0)
            /\ UNCHANGED config
       ELSE /\ config' = [config EXCEPT !.num_frames =
                 ResolveFromConfig(video_info, config.num_frames,
                                   config.fps_for_optimal)]
            /\ pc' = "extract"
            /\ UNCHANGED <<cap, outcome, exit_code>>
    /\ UNCHANGED <<argv, arg_i, video_info, num_frames, frame_indices, idx, read_calls,
                   composed, imwrite_ok, extracted_files, disk, dir_created,
                   warnings>>

\* extract_frames: create the output directory and resolve num_frames.
ExtractBegin ==
    /\ pc = "extract"
    /\ dir_created' = TRUE
    /\ num_frames' = CapToAvailable(video_info, config.num_frames,
                                    config.fps_for_optimal)
    /\ pc' = "select"
    /\ UNCHANGED <<argv, arg_i, config, cap, video_info, frame_indices, idx, read_calls,
                   composed, imwrite_ok, extracted_files, disk, warnings,
                   outcome, exit_code>>

\* extract_frames: compute frame_indices and start the loop.  A ValueError
\* of np.linspace leaves the with block through __exit__ and main exits 1.
SelectStep ==
    /\ pc = "select"
    /\ IF SelectRaises(num_frames)
       THEN /\ cap' = Release(cap)
            /\ Terminate("value_error", 1)
            /\ UNCHANGED <<frame_indices, idx, extracted_files>>
       ELSE /\ frame_indices' = SelectIndices(video_info.total_frames, num_frames)
            /\ idx' = 0
            /\ extracted_files' = <<>>
            /\ pc' = "loop"
            /\ UNCHANGED <<cap, outcome, exit_code>>
    /\ UNCHANGED <<argv, arg_i, config, video_info, num_frames, read_calls, composed,
                   imwrite_ok, disk, dir_created, warnings>>

\* Loop body, first part: seek and cap.read(); a failed read prints a
\* warning and continues with the next index.
ReadFrame ==
    /\ pc = "loop"
    /\ idx < Len(frame_indices)
    /\ read_calls' = read_calls + 1
    /\ \E ret \in BOOLEAN :
          IF ret
          THEN /\ pc' = "compose"
               /\ UNCHANGED <<idx, warnings>>
          ELSE /\ warnings' = Append(warnings,
                      [kind |-> "read", position |-> idx,
                       frame_number |-> frame_indices[idx + 1]])
               /\ idx' = idx + 1
               /\ UNCHANGED pc
    /\ UNCHANGED <<argv, arg_i, config, cap, video_info, num_frames, frame_indices,
                   composed, imwrite_ok, extracted_files, disk, dir_created,
                   outcome, exit_code>>

\* Loop body: _resize_with_aspect_ratio.  An exception of cv2.resize or of
\* the paste leaves the with block through __exit__; main's
\* "except Exception" exits 1.
ComposeStep ==
    /\ pc = "compose"
    /\ composed' = Compose(video_info.width, video_info.height,
                           config.width, config.height)
    /\ IF composed'.ok
       THEN /\ pc' = "imwrite"
            /\ UNCHANGED <<cap, outcome, exit_code>>
       ELSE /\ cap' = Release(cap)
            /\ Terminate("exception", 1)
    /\ UNCHANGED <<argv, arg_i, config, video_info, num_frames, frame_indices, idx,
                   read_calls, imwrite_ok, extracted_files, disk, dir_created,
                   warnings>>

\* A variant that numbers a file by the count of files written so far.
OutputNameByCount(position, files) == FileName(Len(files))

\* Loop body: filename = f"frame{idx:06d}.jpg", idx being the position of
\* enumerate(frame_indices).
OutputName(position, files) == FileName(position)

\* Loop body: cv2.imwrite; success is the encoder's answer.
ImwriteStep ==
    /\ pc = "imwrite"
    /\ \E success \in BOOLEAN :
          /\ imwrite_ok' = success
          /\ disk' = IF success
                     THEN disk \cup {OutputName(idx, extracted_files)}
                     ELSE disk
    /\ pc' = "record"
    /\ UNCHANGED <<argv, arg_i, config, cap, video_info, num_frames, frame_indices, idx,
                   read_calls, composed, extracted_files, dir_created,
                   warnings, outcome, exit_code>>

\* Loop body, last part: append the path on success, warn otherwise.
RecordStep ==
    /\ pc = "record"
    /\ IF imwrite_ok
       THEN /\ extracted_files' =
                 Append(extracted_files, OutputName(idx, extracted_files))
            /\ UNCHANGED warnings
       ELSE /\ warnings' = Append(warnings,
                      [kind |-> "write", position |-> idx,
                       frame_number |-> frame_indices[idx + 1]])
            /\ UNCHANGED extracted_files
    /\ idx' = idx + 1
    /\ pc' = "loop"
    /\ UNCHANGED <<argv, arg_i, config, cap, video_info, num_frames, frame_indices,
                   read_calls, composed, imwrite_ok, disk, dir_created,
                   outcome, exit_code>>

\* A variant that reports success whatever was extracted.
FinishStatusAlwaysZero(files) == 0

\* main(): "if extracted_files: sys.exit(0) else: sys.exit(1)".
FinishStatus(files) == IF Len(files) > 0 THEN 0 ELSE 1

\* extract_frames returns and main() exits through __exit__.
Finish ==
    /\ pc = "loop"
    /\ idx >= Len(frame_indices)
    /\ cap' = Release(cap)
    /\ Terminate(IF Len(extracted_files) > 0 THEN "success" ELSE "no_frames",
                 FinishStatus(extracted_files))
    /\ UNCHANGED <<argv, arg_i, config, video_info, num_frames, frame_indices, idx,
                   read_calls, composed, imwrite_ok, extracted_files, disk,
                   dir_created, warnings>>

\* Positions of main() inside the try block, and inside the with body.
TryBlock == {"enter", "entering", "body", "extract", "select", "loop",
             "compose", "imwrite", "record"}

WithBody == TryBlock \ {"enter", "entering"}

\* A variant of the interrupt handler that removes the frames written.
KeyboardInterruptCleanup ==
    /\ pc \in TryBlock
    /\ cap' = IF pc \in WithBody THEN Release(cap) ELSE cap
    /\ disk' = {}
    /\ Terminate("interrupt", 130)
    /\ UNCHANGED <<argv, arg_i, config, video_info, num_frames, frame_indices, idx,
                   read_calls, composed, imwrite_ok, extracted_files,
                   dir_created, warnings>>

\* Ctrl-C inside the try block of main(): the exception leaves the with
\* body through __exit__ (not when it arrives inside __enter__), and the
\* handler exits 130.  Nothing on disk is touched.
KeyboardInterrupt ==
    /\ pc \in TryBlock
    /\ cap' = IF pc \in WithBody THEN Release(cap) ELSE cap
    /\ Terminate("interrupt", 130)
    /\ UNCHANGED <<argv, arg_i, config, video_info, num_frames, frame_indices, idx,
                   read_calls, composed, imwrite_ok, extracted_files, disk,
                   dir_created, warnings>>

\* ----------------------------------------------------------- specifications

InitRun ==
    /\ num_frames = 0
    /\ frame_indices = <<>>
    /\ idx = 0
    /\ read_calls = 0
    /\ composed = NoCompose
    /\ imwrite_ok = FALSE
    /\ extracted_files = <<>>
    /\ disk = {}
    /\ dir_created = FALSE
    /\ warnings = <<>>
    /\ outcome = "running"
    /\ exit_code = -1

\* The state of main() and extract_frames before anything ran; the session,
\* sampler and compositor specifications start after parse_arguments and do
\* not look at the command line again.
InitLocals ==
    /\ InitRun
    /\ argv = <<>>
    /\ arg_i = 0

\* A command-line session: main() after parse_arguments returned config.
Init ==
    /\ pc = "main"
    /\ config \in Configs(MaxRequested, TargetSizes)
    /\ cap = "none"
    /\ video_info = NoVideoInfo
    /\ InitLocals

Next ==
    \/ CheckFile
    \/ EnterCreate
    \/ EnterCheck
    \/ ShowInfo
    \/ ExtractBegin
    \/ SelectStep
    \/ ReadFrame
    \/ ComposeStep
    \/ ImwriteStep
    \/ RecordStep
    \/ Finish
    \/ KeyboardInterrupt

Spec == Init /\ [][Next]_vars

\* The sampler alone: extract_frames called on an open video of up to
\* MaxSamplerFrames frames with any request, up to index selection.
InitSampler ==
    /\ pc = "extract"
    /\ config \in {c \in Configs(MaxSamplerFrames + 1, {<<2, 2>>}) :
                      ~c.info_only}
    /\ cap = "opened"
    /\ video_info \in VideoInfos(1..MaxSamplerFrames, {<<4, 2>>})
    /\ InitLocals

NextSampler ==
    \/ ExtractBegin
    \/ SelectStep

SpecSampler == InitSampler /\ [][NextSampler]_vars

\* The compositor alone: one decoded frame of any size up to MaxDim in
\* each direction composed into any target up to MaxDim.
Dims == (1..MaxDim) \X (1..MaxDim)

InitCompositor ==
    /\ pc = "compose"
    /\ config \in {c \in Configs(1, Dims) :
                      /\ ~c.info_only
                      /\ c.num_frames = Some(1)
                      /\ c.fps_for_optimal = 20}
    /\ cap = "opened"
    /\ video_info \in {v \in VideoInfos({1}, Dims) : v.fps = 30}
    /\ InitLocals

NextCompositor == ComposeStep

SpecCompositor == InitCompositor /\ [][NextCompositor]_vars

\* ------------------------------------------------------ the command line

\* Largest number of arguments after the program name.
MaxArgs == 4

\* Arguments tried on the command line: a path, flags that take an int, a
\* string or a float, a flag that takes nothing, --help, a flag the program
\* does not know, and values that int() and float() accept ("5"), that only
\* float() accepts ("1e1") and that neither accepts ("abc").
Tokens == {"video.mp4", "-n", "-q", "-o", "--fps", "--info", "--help",
           "--bogus", "5", "1e1", "abc"}

IntFlags == {"-n", "--num-frames", "-w", "--width", "-h", "--height",
             "-q", "--quality"}

StringFlags == {"-o", "--output"}

FloatFlags == {"--fps"}

ValueFlags == IntFlags \cup StringFlags \cup FloatFlags

KnownFlags == ValueFlags \cup {"--info"}

\* float(tok) does not raise ValueError.
FloatParses(tok) == tok \in {"5", "1e1"}

\* A variant that reads an int option with float().
IntParsesAsFloat(tok) == FloatParses(tok)

\* int(tok) does not raise ValueError.
IntParses(tok) == tok \in {"5"}

\* The number int(tok) or float(tok) returns, for a token that parses.
NumberValue(tok) == IF tok = "1e1" THEN 10 ELSE 5

\* sys.argv[k], k counted from 0 as in Python.
Arg(k) == argv[k + 1]

\* parse_arguments: the defaults of config.
DefaultConfig(path) ==
    [video_path |-> path, num_frames |-> None, width |-> 1200,
     height |-> 680, output_dir |-> "frames_output", quality |-> 95,
     fps_for_optimal |-> 20, info_only |-> FALSE]

\* One option with its value stored into config.
SetOption(c, flag, tok) ==
    IF flag \in {"-n", "--num-frames"}
    THEN [c EXCEPT !.num_frames = Some(NumberValue(tok))]
    ELSE IF flag \in {"-w", "--width"}
    THEN [c EXCEPT !.width = NumberValue(tok)]
    ELSE IF flag \in {"-h", "--height"}
    THEN [c EXCEPT !.height = NumberValue(tok)]
    ELSE IF flag \in {"-q", "--quality"}
    THEN [c EXCEPT !.quality = Max(0, Min(100, NumberValue(tok)))]
    ELSE IF flag \in StringFlags
    THEN [c EXCEPT !.output_dir = tok]
    ELSE [c EXCEPT !.fps_for_optimal = NumberValue(tok)]

\* The value of a value flag raises: IndexError when there is no next
\* argument, ValueError when int() or float() rejects it.
ValueRaises(flag, k) ==
    \/ k + 1 >= Len(argv)
    \/ flag \in IntFlags /\ ~IntParses(Arg(k + 1))
    \/ flag \in FloatFlags /\ ~FloatParses(Arg(k + 1))

UnchangedRun ==
    UNCHANGED <<cap, video_info, num_frames, frame_indices, idx, read_calls,
                composed, imwrite_ok, extracted_files, disk, dir_created,
                warnings>>

\* parse_arguments, before the loop: usage and exit 0 when there is no
\* argument or --help is anywhere on the command line; else the defaults,
\* with sys.argv[1] as the video path, and i = 2.
ParseBegin ==
    /\ pc = "parse_begin"
    /\ IF Len(argv) < 2 \/ \E k \in 0..(Len(argv) - 1) : Arg(k) = "--help"
       THEN /\ Terminate("usage", 0)
            /\ UNCHANGED <<config, arg_i>>
       ELSE /\ config' = DefaultConfig(Arg(1))
            /\ arg_i' = 2
            /\ pc' = "parse"
            /\ UNCHANGED <<outcome, exit_code>>
    /\ UNCHANGED argv
    /\ UnchangedRun

\* parse_arguments, one turn of the loop: a value flag takes the next
\* argument, whatever it is; --info takes none; anything else is unknown.
\* Unknown arguments, IndexError and ValueError exit 1.
ParseArg ==
    /\ pc = "parse"
    /\ arg_i < Len(argv)
    /\ LET arg == Arg(arg_i)
       IN  IF arg \in ValueFlags
           THEN IF ValueRaises(arg, arg_i)
                THEN /\ Terminate("argument_error", 1)
                     /\ UNCHANGED <<config, arg_i>>
                ELSE /\ config' = SetOption(config, arg, Arg(arg_i + 1))
                     /\ arg_i' = arg_i + 2
                     /\ UNCHANGED <<pc, outcome, exit_code>>
           ELSE IF arg = "--info"
           THEN /\ config' = [config EXCEPT !.info_only = TRUE]
                /\ arg_i' = arg_i + 1
                /\ UNCHANGED <<pc, outcome, exit_code>>
           ELSE /\ Terminate("unknown_argument", 1)
                /\ UNCHANGED <<config, arg_i>>
    /\ UNCHANGED argv
    /\ UnchangedRun

\* parse_arguments returns config to main().
ParseReturn ==
    /\ pc = "parse"
    /\ arg_i >= Len(argv)
    /\ pc' = "main"
    /\ UNCHANGED <<config, outcome, exit_code, argv, arg_i>>
    /\ UnchangedRun

RECURSIVE SeqsUpTo(_, _)
SeqsUpTo(S, n) ==
    IF n = 0 THEN {<<>>}
    ELSE LET shorter == SeqsUpTo(S, n - 1)
         IN  shorter \cup {Append(q, x) : q \in shorter, x \in S}

\* The program started on any command line of up to MaxArgs arguments;
\* after parse_arguments, main() goes on to the file check and to opening
\* the video.
InitCli ==
    /\ pc = "parse_begin"
    /\ argv \in {<<"prog">> \o a : a \in SeqsUpTo(Tokens, MaxArgs)}
    /\ arg_i = 0
    /\ config = DefaultConfig("")
    /\ cap = "none"
    /\ video_info = NoVideoInfo
    /\ InitRun

NextCli ==
    \/ ParseBegin
    \/ ParseArg
    \/ ParseReturn
    \/ CheckFile
    \/ EnterCreate

SpecCli == InitCli /\ [][NextCli]_vars

\* ------------------------------------------------------------------ claims

TotalFrames == video_info.total_frames

\* The video information has been loaded: main() is, or was, in the with body.
VideoLoaded == pc \in WithBody \/ (pc = "done" /\ cap = "released")

IsNonDecreasing(seq) ==
    \A j \in 1..(Len(seq) - 1) : seq[j] <= seq[j + 1]

\* C1: for every video with total_frames >= 1 and every request (absent, or
\* any integer), the frame count extraction hands to index selection lies in
\* [1, total_frames].
C1_ResolvedCountInRange ==
    (pc = "select" /\ TotalFrames >= 1)
        => (1 <= num_frames /\ num_frames <= TotalFrames)

\* C2 as stated: for total_frames >= 2 and 2 <= frame_count <= total_frames
\* the selected indices are frame_count many, non-decreasing, from 0 to
\* total_frames - 1, element i being floor(i * (total_frames - 1) /
\* (frame_count - 1)).
C2_IndicesAreExactFloors ==
    (pc = "loop" /\ TotalFrames >= 2 /\ 2 <= num_frames
                 /\ num_frames <= TotalFrames)
        => /\ Len(frame_indices) = num_frames
           /\ IsNonDecreasing(frame_indices)
           /\ frame_indices[1] = 0
           /\ frame_indices[num_frames] = TotalFrames - 1
           /\ \A i \in 0..(num_frames - 1) :
                 frame_indices[i + 1] =
                     (i * (TotalFrames - 1)) \div (num_frames - 1)

\* C2 amended: for total_frames >= 2 and 2 <= frame_count <= total_frames
\* the selected indices are frame_count many, non-decreasing, from 0 to
\* total_frames - 1; element i is floor(i * (total_frames - 1) /
\* (frame_count - 1)), except that where this quotient is an integer k the
\* double-precision product may fall just short of k and give k - 1.
C2_IndicesSpanVideo ==
    (pc = "loop" /\ TotalFrames >= 2 /\ 2 <= num_frames
                 /\ num_frames <= TotalFrames)
        => /\ Len(frame_indices) = num_frames
           /\ IsNonDecreasing(frame_indices)
           /\ frame_indices[1] = 0
           /\ frame_indices[num_frames] = TotalFrames - 1
           /\ \A i \in 0..(num_frames - 1) :
                 LET exact == i * (TotalFrames - 1)
                     k == exact \div (num_frames - 1)
                 IN  \/ frame_indices[i + 1] = k
                     \/ /\ exact % (num_frames - 1) = 0
                        /\ frame_indices[i + 1] = k - 1

\* Witness of C2: 23 indices selected over 31 frames; sample 11 is 14, one
\* below floor(11 * 30 / 22) = 15.
C2_Witness ==
    /\ pc = "loop"
    /\ TotalFrames = 31
    /\ num_frames = 23
    /\ Len(frame_indices) = 23
    /\ frame_indices[12] = 14
    /\ frame_indices[23] = 30

\* C3: for total_frames >= 1, when the resolved frame count is 1 the selected
\* indices are exactly <<floor(total_frames / 2)>>.
C3_SingleMiddleIndex ==
    (pc = "loop" /\ TotalFrames >= 1 /\ num_frames = 1)
        => frame_indices = <<TotalFrames \div 2>>

\* Witness of C3: one frame selected of a 5-frame video, index 2.
C3_Witness ==
    /\ pc = "loop"
    /\ TotalFrames = 5
    /\ num_frames = 1
    /\ frame_indices = <<2>>

\* C4: a per-frame failure never aborts the run: in a run over n sampled
\* indices that is not interrupted, with f < n decode or encode failures,
\* every index is attempted, n - f files are written and returned, f
\* warnings are recorded and the exit code is 0.
C4_FailuresNeverAbort ==
    (/\ pc = "done"
     /\ outcome # "interrupt"
     /\ Len(frame_indices) >= 1
     /\ Len(warnings) < Len(frame_indices))
        => /\ read_calls = Len(frame_indices)
           /\ Cardinality(disk) = Len(frame_indices) - Len(warnings)
           /\ Len(extracted_files) = Len(frame_indices) - Len(warnings)
           /\ exit_code = 0

\* Extraction returned to main(): the run is complete and not interrupted.
Completed == pc = "done" /\ outcome \in {"success", "no_frames"}

\* C5: once extraction has run to completion, the exit status is 0 if and
\* only if at least one frame file was written; if every attempted frame
\* failed, extraction failure is reported and the status is 1.
C5_ExitZeroIffFileWritten ==
    Completed
        => /\ exit_code = 0 <=> disk # {}
           /\ disk = {} => (exit_code = 1 /\ outcome = "no_frames")
           /\ exit_code \in {0, 1}

\* Witness of C5: a completed run in which every attempted frame failed.
C5_Witness ==
    /\ Completed
    /\ read_calls >= 2
    /\ Len(warnings) = read_calls
    /\ disk = {}
    /\ exit_code = 1

RECURSIVE DigitsValue(_)
DigitsValue(d) ==
    IF Len(d) = 0 THEN 0
    ELSE 10 * DigitsValue(SubSeq(d, 1, Len(d) - 1)) + d[Len(d)]

\* The loop positions before idx that printed no warning, in order.
SucceededPositions ==
    LET Succeeded(p) == \A j \in 1..Len(warnings) : warnings[j].position # p
    IN  SelectSeq([j \in 1..idx |-> j - 1], Succeeded)

\* C7 as stated: the k files written carry exactly the numbers 000000 .. k-1
\* in write order, whatever frames failed.
C7_NumbersAreOutputPositions ==
    \A j \in 1..Len(extracted_files) :
        /\ Len(extracted_files[j].number) = PadWidth
        /\ DigitsValue(extracted_files[j].number) = j - 1

\* C7 amended: every file written is named frame{idx:06d}.jpg where idx is
\* the zero-based position of the frame in the sampled index sequence (not
\* the decoded frame index, and not the count of files written): the files
\* carry, in write order, the positions that did not fail, so the numbers
\* increase strictly and skip every failed position.
C7_NumbersAreSamplePositions ==
    /\ Len(extracted_files) = Len(SucceededPositions)
    /\ \A j \in 1..Len(extracted_files) :
          /\ extracted_files[j].prefix = "frame"
          /\ extracted_files[j].ext = "jpg"
          /\ Len(extracted_files[j].number) = PadWidth
          /\ DigitsValue(extracted_files[j].number) = SucceededPositions[j]
          /\ extracted_files[j] \in disk

\* Witness of C7: a completed run whose first sampled frame failed, so that
\* the first file written is frame000001.jpg.
C7_Witness ==
    /\ Completed
    /\ Len(extracted_files) = 2
    /\ extracted_files[1].number = <<0, 0, 0, 0, 0, 1>>
    /\ extracted_files[2].number = <<0, 0, 0, 0, 0, 2>>

\* C8: a user interrupt inside the run ends the process with status 130,
\* every other exit path uses status 0 or 1, and no step of the program,
\* the interrupt included, removes a frame file already written.
C8_InterruptKeepsFiles ==
    /\ [][/\ disk \subseteq disk'
          /\ (outcome # "interrupt" /\ outcome' = "interrupt")
                => (pc' = "done" /\ exit_code' = 130)]_vars
    /\ []((pc = "done" /\ outcome # "interrupt") => exit_code \in {0, 1})

\* Witness of C8: interrupted in the middle of the loop with two files
\* already written, status 130, both files still there.
C8_Witness ==
    /\ pc = "done"
    /\ outcome = "interrupt"
    /\ exit_code = 130
    /\ idx < Len(frame_indices)
    /\ Cardinality(disk) = 2
    /\ \A j \in 1..Len(extracted_files) : extracted_files[j] \in disk

C10_ScaledSizeWithinTarget ==
    (composed # NoCompose)
        => /\ composed.ok
           /\ 1 <= composed.new_w /\ composed.new_w <= config.width
           /\ 1 <= composed.new_h /\ composed.new_h <= config.height
           /\ composed.x_offset >= 0
           /\ composed.x_offset + composed.new_w <= composed.canvas_w
           /\ composed.y_offset >= 0
           /\ composed.y_offset + composed.new_h <= composed.canvas_h
           /\ composed.canvas_w = config.width
           /\ composed.canvas_h = config.height

\* Command-line texts as a reader classifies them, apart from the parser:
\* the integers, the numbers, and the things that look like an option but
\* are none.
IntegerTexts == {"5"}

NumberTexts == {"5", "1e1"}

UnknownFlags == {"--bogus"}

HasHelp == \E k \in 0..(Len(argv) - 1) : Arg(k) = "--help"

\* No video I/O has happened: no file-existence check, no decoder, no
\* output directory.
NoVideoIO ==
    /\ pc \in {"parse_begin", "parse", "done"}
    /\ outcome # "no_file"
    /\ cap = "none"
    /\ ~dir_created

\* The process reported an argument error, or is still parsing.
ArgumentErrorOnly ==
    pc = "done" => (outcome \in {"argument_error", "unknown_argument"}
                    /\ exit_code # 0)

\* Malformed input somewhere among the arguments: an unknown flag, a number
\* option followed by something that is no such number, or a value option
\* as the last argument.
MalformedAnywhere ==
    \E k \in 1..(Len(argv) - 1) :
        \/ Arg(k) \in UnknownFlags
        \/ /\ k + 1 < Len(argv)
           /\ \/ Arg(k) \in IntFlags /\ Arg(k + 1) \notin IntegerTexts
              \/ Arg(k) \in FloatFlags /\ Arg(k + 1) \notin NumberTexts
        \/ Arg(k) \in ValueFlags /\ k + 1 = Len(argv)

\* C11 as stated: a command line with malformed input in any position,
\* combined with any other arguments, is reported and the process exits
\* non-zero before any video I/O.
C11_MalformedAlwaysRejected ==
    (Len(argv) >= 1 /\ MalformedAnywhere)
        => (NoVideoIO /\ ArgumentErrorOnly)

\* The positions of sys.argv read as options, from k on: an option that
\* takes a value is followed by its value, whatever it is.
RECURSIVE OptionPositions(_)
OptionPositions(k) ==
    IF k >= Len(argv) THEN {}
    ELSE {k} \cup OptionPositions(IF Arg(k) \in ValueFlags THEN k + 2
                                  ELSE k + 1)

\* Malformed input at an option position: not a known option, a number
\* option whose value is no such number, or a value option with nothing
\* after it.
MalformedAt(k) ==
    \/ Arg(k) \notin KnownFlags
    \/ /\ Arg(k) \in ValueFlags
       /\ \/ k + 1 >= Len(argv)
          \/ Arg(k) \in IntFlags /\ Arg(k + 1) \notin IntegerTexts
          \/ Arg(k) \in FloatFlags /\ Arg(k + 1) \notin NumberTexts

\* C11 amended: a command line with --help anywhere (or with no argument)
\* prints the usage and exits 0; otherwise sys.argv[1] is the video path
\* whatever it looks like, and if the arguments after it, read left to
\* right with every value option taking the next argument as its value,
\* hold malformed input at an option position, the error is reported and
\* the process exits 1.  Both happen before any video I/O.
C11_MalformedOptionRejected ==
    /\ (Len(argv) >= 1 /\ (HasHelp \/ Len(argv) < 2))
          => /\ NoVideoIO
             /\ pc # "parse"
             /\ pc = "done" => (outcome = "usage" /\ exit_code = 0)
    /\ (Len(argv) >= 2 /\ ~HasHelp
                       /\ \E k \in OptionPositions(2) : MalformedAt(k))
          => /\ NoVideoIO
             /\ pc = "done" => /\ exit_code = 1
                               /\ outcome \in {"argument_error",
                                               "unknown_argument"}

\* Witness of C11: "video.mp4 -n 5 --bogus" parsed -n 5, met the unknown
\* flag and exited 1 with nothing opened.
C11_Witness ==
    /\ pc = "done"
    /\ argv = <<"prog", "video.mp4", "-n", "5", "--bogus">>
    /\ config.num_frames = Some(5)
    /\ arg_i = 4
    /\ outcome = "unknown_argument"
    /\ exit_code = 1
    /\ NoVideoIO

====
